---------------------------- MODULE Spec2Model ----------------------------
(***************************************************************************)
(* A model of src/ltc_generator.py: the LTCGenerator object, its two frame *)
(* encoders (_timecode_to_binary and _timecode_to_binary_for_60fps), the   *)
(* biphase-mark modulator (_generate_ltc_waveform) and the orchestrator    *)
(* (generate_ltc).                                                         *)
(*                                                                         *)
(* Bit positions of an LTC frame are 0..79 in the source (a Python list);  *)
(* a TLA+ sequence is indexed from 1, so position p of the source is       *)
(* element p + 1 here.  BitAt hides the shift.                             *)
(***************************************************************************)
EXTENDS Integers, Sequences, FiniteSets

(***************************************************************************)
(* Bounds of the model and the input domains the actions draw from.        *)
(***************************************************************************)
\* At most this many of the eight user-bits attributes are given a
\* non-zero value.
MaxNonZero == 1

\* generate_ltc is called with durations of at most this many frames.
MaxFrames == 3

\* The constructor's sample rates give at most this many samples per bit.
MaxSamplesPerBit == 2

\* Frame rates the generator is constructed with.
FpsVals == {1, 25, 30, 50, 60}

\* Values assigned to a user-bits attribute (0101 and 1010: every bit of a
\* nibble both set and clear).
UserBitVals == {0, 5, 10}

\* Values of the constructor's user_bits_field1 argument.
CtorField1Vals == {0, 5}

\* <<hours, minutes, seconds>> handed to the encoders directly: the ends of
\* the ranges and every units and tens digit in between.
HmsVals == {<<0, 0, 0>>, <<23, 59, 59>>, <<17, 38, 45>>, <<9, 26, 13>>,
            <<10, 40, 7>>, <<4, 51, 32>>}

\* Frame numbers handed to the encoders directly: the digits' corners, the
\* last valid frame, and the first two frames that are out of range.
FrameVals(f) == {0, 9, 10, 29, 30, 39, 40, 49, f - 1, f, f + 1} \cap 0..(f + 1)

(***************************************************************************)
(* The state.                                                              *)
(***************************************************************************)
VARIABLES
    fps,                    \* self.fps
    sample_rate,            \* self.sample_rate
    user_bits_field,        \* self.user_bits_field1 .. self.user_bits_field8
    ctor_user_bits_field1,  \* the user_bits_field1 argument of __init__
    op,                     \* the call whose result is at hand, or "idle"
    tc,                     \* its timecode argument <<hours, minutes, seconds, frames>>
    raised,                 \* whether it raised ValueError
    ltc_bits,               \* the frame an encoder returned / the modulator was given
    waveform,               \* the samples the modulator / generate_ltc returned
    num_frames,             \* generate_ltc's num_frames
    emitted                 \* generate_ltc: per iteration, what was encoded and how

vars == <<fps, sample_rate, user_bits_field, ctor_user_bits_field1, op, tc,
          raised, ltc_bits, waveform, num_frames, emitted>>

\* self.bits_per_frame
BitsPerFrame == 80

(***************************************************************************)
(* Helpers of the encoders.                                                *)
(***************************************************************************)
\* 1 if (v & (1 << i)) else 0
Bit(v, i) == (v \div (2 ^ i)) % 2

\* four appends of Bit(v, 0) .. Bit(v, 3): a nibble, least significant bit first
Nibble(v) == <<Bit(v, 0), Bit(v, 1), Bit(v, 2), Bit(v, 3)>>

\* the low three bits of a tens digit (seconds, minutes)
Tens3(v) == <<Bit(v, 0), Bit(v, 1), Bit(v, 2)>>

\* the low two bits of a tens digit (frames in the generic encoder, hours)
Tens2(v) == <<Bit(v, 0), Bit(v, 1)>>

\* sum(frame_bits)
RECURSIVE SumBits(_)
SumBits(bits) == IF bits = <<>> THEN 0 ELSE Head(bits) + SumBits(Tail(bits))

\* A faulty sync word: its first and last bits exchanged.
SyncWordFlipped == <<1, 0, 1, 1, 1, 1, 1, 1, 1, 1, 1, 1, 1, 1, 0, 0>>

\* frame_bits.extend([0,0,1,1,1,1,1,1,1,1,1,1,1,1,0,1])
SyncWord == <<0, 0, 1, 1, 1, 1, 1, 1, 1, 1, 1, 1, 1, 1, 0, 1>>

\* A faulty parity step: the correction left out.
ParityCorrectSkipped(bits) == bits

\* parity_sum = sum(frame_bits); if odd, frame_bits[27] = 1
ParityCorrect(bits) ==
    IF SumBits(bits) % 2 = 1 THEN [bits EXCEPT ![28] = 1] ELSE bits

\* A faulty range check: frames = fps let through.
FrameOutOfRangeOffByOne(frames, f) == frames > f

\* if frames >= self.fps: raise ValueError
FrameOutOfRange(frames, f) == frames >= f

\* Bits 10..79 before the parity correction; the two encoders build them
\* with the same statements.
Bits10To79(ub, hours, minutes, seconds) ==
    LET second_units == seconds % 10
        second_tens  == seconds \div 10
        minute_units == minutes % 10
        minute_tens  == minutes \div 10
        hour_units   == hours % 10
        hour_tens    == hours \div 10
        drop_frame_flag      == 0
        color_frame_flag     == 1
        phase_correction_bit == 0
        binary_group_flag    == 0
        clock_flag           == 0
    IN  <<drop_frame_flag, color_frame_flag>>
        \o Nibble(ub[2])
        \o Nibble(second_units)
        \o Nibble(ub[3])
        \o Tens3(second_tens)
        \o <<phase_correction_bit>>
        \o Nibble(ub[4])
        \o Nibble(minute_units)
        \o Nibble(ub[5])
        \o Tens3(minute_tens)
        \o <<binary_group_flag>>
        \o Nibble(ub[6])
        \o Nibble(hour_units)
        \o Nibble(ub[7])
        \o Tens2(hour_tens)
        \o <<clock_flag>>
        \o <<binary_group_flag>>
        \o Nibble(ub[8])
        \o SyncWord

\* A faulty generic layout: the frame tens before user bits field 1.
Bits4To9GenericTensFirst(ub, frames) ==
    Tens2(frames \div 10) \o Nibble(ub[1])

\* Bits 4..9 of the generic encoder: user bits field 1, then the low two
\* bits of the frame tens.
Bits4To9Generic(ub, frames) ==
    Nibble(ub[1]) \o Tens2(frames \div 10)

\* Bits 4..9 of the 60 fps encoder: the "frame >= 30" flag and three zeros in
\* place of user bits field 1, then the tens digit folded onto two bits.
Bits4To9For60fps(frames) ==
    LET frame_tens == frames \div 10
    IN  <<IF frames >= 30 THEN 1 ELSE 0, 0, 0, 0,
          IF frame_tens \in {1, 4} THEN 1 ELSE 0,
          IF frame_tens \in {2, 5} THEN 1 ELSE 0>>

\* What an encoder call gives back: an exception, or the 80 bits.
Raised == [raised |-> TRUE, bits |-> <<>>]
Returned(bits) == [raised |-> FALSE, bits |-> bits]

\* LTCGenerator._timecode_to_binary
TimecodeToBinary(f, ub, hours, minutes, seconds, frames) ==
    IF FrameOutOfRange(frames, f)
    THEN Raised
    ELSE Returned(ParityCorrect(Nibble(frames % 10)
                                \o Bits4To9Generic(ub, frames)
                                \o Bits10To79(ub, hours, minutes, seconds)))

\* LTCGenerator._timecode_to_binary_for_60fps
TimecodeToBinaryFor60fps(f, ub, hours, minutes, seconds, frames) ==
    IF FrameOutOfRange(frames, f)
    THEN Raised
    ELSE Returned(ParityCorrect(Nibble(frames % 10)
                                \o Bits4To9For60fps(frames)
                                \o Bits10To79(ub, hours, minutes, seconds)))

(***************************************************************************)
(* The modulator.                                                          *)
(***************************************************************************)
\* samples_per_bit = int(self.sample_rate / (self.fps * self.bits_per_frame))
SamplesPerBit(sr, f) == sr \div (f * BitsPerFrame)

\* half_samples_per_bit = samples_per_bit // 2
HalfSamplesPerBit(sr, f) == SamplesPerBit(sr, f) \div 2

\* A faulty modulator: the mid-cell flip on a 0 bit instead of a 1 bit.
MidLevelOnZero(level, bit) == IF bit = 0 THEN -level ELSE level

\* if bit == 1: current_level = -current_level
MidLevel(level, bit) == IF bit = 1 THEN -level ELSE level

\* current_level = -current_level, at the end of each cell
NextCellLevel(level) == -level

\* The loop over ltc_bits from bit k on, with the level its cell starts at:
\* the level of the first half of each cell, then of its second half.
RECURSIVE HalfCellLevels(_, _, _)
HalfCellLevels(bits, k, current_level) ==
    IF k > Len(bits)
    THEN <<>>
    ELSE LET second == MidLevel(current_level, bits[k])
         IN  <<current_level, second>>
             \o HalfCellLevels(bits, k + 1, NextCellLevel(second))

\* LTCGenerator._generate_ltc_waveform: each half cell is
\* [current_level] * half_samples_per_bit, extended onto the waveform in order.
GenerateLtcWaveform(bits, sr, f) ==
    LET half   == HalfSamplesPerBit(sr, f)
        levels == HalfCellLevels(bits, 1, 1)
    IN  [p \in 1..(Len(levels) * half) |-> levels[((p - 1) \div half) + 1]]

(***************************************************************************)
(* The orchestrator.                                                       *)
(***************************************************************************)
\* num_frames = int(duration * self.fps).  A duration is <<n, d>>, the float
\* n / d with d a power of two, so that duration * fps is exact.
NumFrames(duration, f) == (duration[1] * f) \div duration[2]

\* A faulty closed form: the frame number not taken modulo fps.
CurrentTimecodeNoFrameWrap(f, start, i) ==
    LET hours   == start[1]
        minutes == start[2]
        seconds == start[3]
        frames  == start[4]
    IN  << (hours + (minutes + (seconds + (frames + i) \div f) \div 60) \div 60) % 24,
           (minutes + (seconds + (frames + i) \div f) \div 60) % 60,
           (seconds + (frames + i) \div f) % 60,
           frames + i >>

\* A faulty closed form: the hours not taken modulo 24.
CurrentTimecodeNoHourWrap(f, start, i) ==
    LET hours   == start[1]
        minutes == start[2]
        seconds == start[3]
        frames  == start[4]
    IN  << hours + (minutes + (seconds + (frames + i) \div f) \div 60) \div 60,
           (minutes + (seconds + (frames + i) \div f) \div 60) % 60,
           (seconds + (frames + i) \div f) % 60,
           (frames + i) % f >>

\* A faulty closed form: the seconds' carry not added to the minutes.
CurrentTimecodeNoMinuteCarry(f, start, i) ==
    LET hours   == start[1]
        minutes == start[2]
        seconds == start[3]
        frames  == start[4]
    IN  << (hours + minutes \div 60) % 24,
           minutes % 60,
           (seconds + (frames + i) \div f) % 60,
           (frames + i) % f >>

\* current_hours, current_minutes, current_seconds, current_frames of
\* iteration i
CurrentTimecode(f, start, i) ==
    LET hours   == start[1]
        minutes == start[2]
        seconds == start[3]
        frames  == start[4]
    IN  << (hours + (minutes + (seconds + (frames + i) \div f) \div 60) \div 60) % 24,
           (minutes + (seconds + (frames + i) \div f) \div 60) % 60,
           (seconds + (frames + i) \div f) % 60,
           (frames + i) % f >>

\* A faulty dispatch: the generic encoder at every frame rate.
VariantForAlwaysGeneric(f) == "timecode_to_binary"

\* if self.fps == 60: ..._for_60fps(...) else: _timecode_to_binary(...)
VariantFor(f) ==
    IF f = 60 THEN "timecode_to_binary_for_60fps" ELSE "timecode_to_binary"

\* The encoder call of an iteration
Encode(v, f, ub, t) ==
    IF v = "timecode_to_binary_for_60fps"
    THEN TimecodeToBinaryFor60fps(f, ub, t[1], t[2], t[3], t[4])
    ELSE TimecodeToBinary(f, ub, t[1], t[2], t[3], t[4])

\* What an iteration of generate_ltc's loop did: its timecode, the encoder
\* it called and what the encoder gave back.
Encoded(i, t, v, r) ==
    [i |-> i, tc |-> t, variant |-> v, raised |-> r.raised, bits |-> r.bits]

IterationAt(f, ub, i, t, v) == Encoded(i, t, v, Encode(v, f, ub, t))

\* One iteration of generate_ltc's loop up to the encoder's return.
Iteration(f, ub, start, i) ==
    IterationAt(f, ub, i, CurrentTimecode(f, start, i), VariantFor(f))

\* The loop of generate_ltc from iteration i on, with the iterations done
\* and the waveform appended so far.  An encoder that raises ends the call
\* there: the exception leaves generate_ltc and no waveform is returned.
RECURSIVE GenerateLoop(_, _, _, _, _, _, _, _)
GenerateStep(f, sr, ub, start, n, i, done, wave, it) ==
    IF it.raised
    THEN [raised |-> TRUE, emitted |-> Append(done, it), waveform |-> <<>>]
    ELSE GenerateLoop(f, sr, ub, start, n, i + 1, Append(done, it),
                      wave \o GenerateLtcWaveform(it.bits, sr, f))

GenerateLoop(f, sr, ub, start, n, i, done, wave) ==
    IF i >= n
    THEN [raised |-> FALSE, emitted |-> done, waveform |-> wave]
    ELSE GenerateStep(f, sr, ub, start, n, i, done, wave, Iteration(f, ub, start, i))

\* LTCGenerator.generate_ltc, with num_frames already computed
GenerateLtc(f, sr, ub, start, n) ==
    GenerateLoop(f, sr, ub, start, n, 0, <<>>, <<>>)

(***************************************************************************)
(* The object after construction, and the operations on it.                *)
(***************************************************************************)
\* __init__: fps and sample_rate are stored; the eight user-bits attributes
\* are set to 0 whatever the user_bits_field1 argument is.
Constructed(f, sr, field1) ==
    /\ fps = f
    /\ sample_rate = sr
    /\ ctor_user_bits_field1 = field1
    /\ user_bits_field = [k \in 1..8 |-> 0]
    /\ op = "idle"
    /\ tc = <<>>
    /\ raised = FALSE
    /\ ltc_bits = <<>>
    /\ waveform = <<>>
    /\ num_frames = 0
    /\ emitted = <<>>

\* The generator for the encoders, which do not read the sample rate: at
\* one sample per bit, where a waveform has no samples.
InitEncoder ==
    \E f \in FpsVals : Constructed(f, f * BitsPerFrame, 0)

\* A client sets one of the attributes user_bits_field1..8 (they are plain
\* public attributes; nothing in the class assigns them after __init__).
AssignUserBitsField ==
    \E k \in 1..8, v \in UserBitVals :
        LET ub == [user_bits_field EXCEPT ![k] = v]
        IN  /\ Cardinality({j \in 1..8 : ub[j] # 0}) <= MaxNonZero
            /\ op = "idle"
            /\ user_bits_field' = ub
            /\ UNCHANGED <<fps, sample_rate, ctor_user_bits_field1, op, tc, raised,
                           ltc_bits, waveform, num_frames, emitted>>

\* A direct call of _timecode_to_binary.
CallTimecodeToBinary ==
    \E hms \in HmsVals, frames \in FrameVals(fps) :
        LET hours == hms[1]
            minutes == hms[2]
            seconds == hms[3]
            r == TimecodeToBinary(fps, user_bits_field, hours, minutes, seconds, frames)
        IN  /\ op = "idle"
            /\ op' = "timecode_to_binary"
            /\ tc' = <<hours, minutes, seconds, frames>>
            /\ raised' = r.raised
            /\ ltc_bits' = r.bits
            /\ waveform' = <<>>
            /\ num_frames' = 0
            /\ emitted' = <<>>
            /\ UNCHANGED <<fps, sample_rate, user_bits_field, ctor_user_bits_field1>>

\* A direct call of _timecode_to_binary_for_60fps.
CallTimecodeToBinaryFor60fps ==
    \E hms \in HmsVals, frames \in FrameVals(fps) :
        LET hours == hms[1]
            minutes == hms[2]
            seconds == hms[3]
            r == TimecodeToBinaryFor60fps(fps, user_bits_field, hours, minutes, seconds, frames)
        IN  /\ op = "idle"
            /\ op' = "timecode_to_binary_for_60fps"
            /\ tc' = <<hours, minutes, seconds, frames>>
            /\ raised' = r.raised
            /\ ltc_bits' = r.bits
            /\ waveform' = <<>>
            /\ num_frames' = 0
            /\ emitted' = <<>>
            /\ UNCHANGED <<fps, sample_rate, user_bits_field, ctor_user_bits_field1>>

\* The call has returned (or raised) and the caller is done with the
\* result: the object, which no call changes, is ready for the next one.
Return ==
    /\ op # "idle"
    /\ op' = "idle"
    /\ tc' = <<>>
    /\ raised' = FALSE
    /\ ltc_bits' = <<>>
    /\ waveform' = <<>>
    /\ num_frames' = 0
    /\ emitted' = <<>>
    /\ UNCHANGED <<fps, sample_rate, user_bits_field, ctor_user_bits_field1>>

\* Sample rates the generator is constructed with: whole numbers of
\* samples per bit, and the last rate below two samples per bit.
SampleRates(f) ==
    {f * BitsPerFrame * k : k \in 1..MaxSamplesPerBit} \cup {2 * f * BitsPerFrame - 1}

\* Start timecodes handed to generate_ltc: before each carry and before the
\* wrap at 24 hours, and values outside the documented ranges.
StartVals(f) ==
    {<<0, 0, 0, 0>>, <<17, 38, 45, 0>>, <<0, 0, 59, f - 1>>, <<0, 59, 59, f - 1>>,
     <<23, 59, 59, f - 1>>, <<23, 59, 59, f - 2>>,
     <<0, 0, 0, f>>, <<0, 0, 60, 0>>, <<24, 60, 0, f + 1>>, <<0, 0, 0, -1>>,
     <<-1, -1, -1, -5>>}

\* Durations handed to generate_ltc, as <<n, d>> for n / d seconds.
DurationVals ==
    {<<0, 1>>, <<1, 64>>, <<1, 32>>, <<3, 64>>, <<1, 16>>, <<5, 64>>, <<3, 32>>,
     <<1, 8>>, <<9, 64>>, <<3, 16>>, <<1, 1>>, <<2, 1>>, <<3, 1>>, <<4, 1>>}

\* Frames handed to the modulator directly, beside the encoders' own.
PatternVals ==
    {[k \in 1..BitsPerFrame |-> 0],
     [k \in 1..BitsPerFrame |-> 1],
     [k \in 1..BitsPerFrame |-> k % 2]}

\* The generator as main() builds it, for the orchestrator.
Init ==
    \E f \in FpsVals, field1 \in CtorField1Vals :
        \E sr \in SampleRates(f) : Constructed(f, sr, field1)

\* The generator for the modulator: also at the default sample rate.
InitModulator ==
    \E f \in FpsVals \ {1} :
        \E sr \in SampleRates(f) \cup {48000} : Constructed(f, sr, 0)

\* A direct call of _generate_ltc_waveform, on a frame of an encoder or on
\* another list of 80 bits.
CallGenerateLtcWaveform ==
    \E bits \in PatternVals
                \cup {TimecodeToBinary(fps, user_bits_field, t[1], t[2], t[3], 0).bits :
                         t \in HmsVals}
                \cup {TimecodeToBinaryFor60fps(fps, user_bits_field, 23, 59, 59, fps - 1).bits} :
        /\ op = "idle"
        /\ op' = "generate_ltc_waveform"
        /\ ltc_bits' = bits
        /\ waveform' = GenerateLtcWaveform(bits, sample_rate, fps)
        /\ tc' = <<>>
        /\ raised' = FALSE
        /\ num_frames' = 0
        /\ emitted' = <<>>
        /\ UNCHANGED <<fps, sample_rate, user_bits_field, ctor_user_bits_field1>>

\* A call of generate_ltc.
CallGenerateLtc ==
    \E start \in StartVals(fps), n \in {NumFrames(duration, fps) : duration \in DurationVals} :
            /\ op = "idle"
            /\ n <= MaxFrames
            /\ \E r \in {GenerateLtc(fps, sample_rate, user_bits_field, start, n)} :
                /\ raised' = r.raised
                /\ emitted' = r.emitted
                /\ waveform' = r.waveform
            /\ op' = "generate_ltc"
            /\ tc' = start
            /\ num_frames' = n
            /\ ltc_bits' = <<>>
            /\ UNCHANGED <<fps, sample_rate, user_bits_field, ctor_user_bits_field1>>

NextEncoder ==
    \/ AssignUserBitsField
    \/ CallTimecodeToBinary
    \/ CallTimecodeToBinaryFor60fps
    \/ CallGenerateLtc
    \/ Return

SpecEncoder == InitEncoder /\ [][NextEncoder]_vars

NextModulator ==
    \/ CallGenerateLtcWaveform
    \/ Return

SpecModulator == InitModulator /\ [][NextModulator]_vars

Next ==
    \/ CallGenerateLtc
    \/ Return

Spec == Init /\ [][Next]_vars

(***************************************************************************)
(* Reading a frame back: the inverse of the layout the encoders write.     *)
(***************************************************************************)
\* The bit at position p of the source's list.
BitAt(bits, p) == bits[p + 1]

\* The value of the least-significant-bit-first nibble at positions p..p+3.
NibbleAt(bits, p) ==
    BitAt(bits, p) + 2 * BitAt(bits, p + 1) + 4 * BitAt(bits, p + 2) + 8 * BitAt(bits, p + 3)

\* The value of the two bits at positions p, p+1 and of the three at p..p+2.
TwoAt(bits, p) == BitAt(bits, p) + 2 * BitAt(bits, p + 1)
ThreeAt(bits, p) == TwoAt(bits, p) + 4 * BitAt(bits, p + 2)

\* The eight user-bits nibbles as the layout places them.
DecodeUserBits(bits) ==
    <<NibbleAt(bits, 4), NibbleAt(bits, 12), NibbleAt(bits, 20), NibbleAt(bits, 28),
      NibbleAt(bits, 36), NibbleAt(bits, 44), NibbleAt(bits, 52), NibbleAt(bits, 60)>>

\* Hours, minutes and seconds, which both layouts place alike.
DecodeHms(bits) ==
    <<NibbleAt(bits, 48) + 10 * TwoAt(bits, 56),
      NibbleAt(bits, 32) + 10 * ThreeAt(bits, 40),
      NibbleAt(bits, 16) + 10 * ThreeAt(bits, 24)>>

\* The frame number of the generic layout: tens in bits 8-9.
DecodeFrameGeneric(bits) == NibbleAt(bits, 0) + 10 * TwoAt(bits, 8)

\* The frame number of the 60 fps layout: bit 8 is tens in {1,4}, bit 9 is
\* tens in {2,5}, bit 4 is frame >= 30.
DecodeFrameFor60fps(bits) ==
    NibbleAt(bits, 0) + 10 * (BitAt(bits, 8) + 2 * BitAt(bits, 9) + 3 * BitAt(bits, 4))

ValidTimecode(t, f) ==
    /\ t[1] \in 0..23
    /\ t[2] \in 0..59
    /\ t[3] \in 0..59
    /\ t[4] \in 0..(f - 1)

\* A direct encoder call has returned a frame.
EncoderReturned ==
    /\ op \in {"timecode_to_binary", "timecode_to_binary_for_60fps"}
    /\ ~raised

\* The two frame-rate profiles: the generic encoder at fps # 60, the 60 fps
\* encoder at fps = 60.
GenericProfile == op = "timecode_to_binary" /\ fps # 60
SixtyProfile == op = "timecode_to_binary_for_60fps" /\ fps = 60

(***************************************************************************)
(* C1                                                                      *)
(***************************************************************************)
\* C1 as stated: in both profiles, for every valid timecode and all user
\* bits, reading the frame back by the layout gives the timecode and the
\* eight user-bits nibbles it was built from.
C1_RoundTripEverything ==
    (EncoderReturned /\ (GenericProfile \/ SixtyProfile) /\ ValidTimecode(tc, fps))
    => /\ DecodeHms(ltc_bits) = <<tc[1], tc[2], tc[3]>>
       /\ tc[4] = IF SixtyProfile THEN DecodeFrameFor60fps(ltc_bits)
                                  ELSE DecodeFrameGeneric(ltc_bits)
       /\ DecodeUserBits(ltc_bits) = user_bits_field

\* C1 (amended): in the generic profile every valid timecode with frame <= 39
\* and all eight user-bits nibbles are read back exactly; in the 60 fps
\* profile every valid timecode and the user-bits nibbles 2..8 are read back
\* exactly (field 1 is not in the frame).
C1_RoundTrip ==
    /\ (EncoderReturned /\ GenericProfile /\ ValidTimecode(tc, fps) /\ tc[4] <= 39)
       => /\ DecodeHms(ltc_bits) = <<tc[1], tc[2], tc[3]>>
          /\ DecodeFrameGeneric(ltc_bits) = tc[4]
          /\ DecodeUserBits(ltc_bits) = user_bits_field
    /\ (EncoderReturned /\ SixtyProfile /\ ValidTimecode(tc, fps))
       => /\ DecodeHms(ltc_bits) = <<tc[1], tc[2], tc[3]>>
          /\ DecodeFrameFor60fps(ltc_bits) = tc[4]
          /\ \A k \in 2..8 : DecodeUserBits(ltc_bits)[k] = user_bits_field[k]

C1_Witness ==
    /\ EncoderReturned
    /\ SixtyProfile
    /\ tc = <<17, 38, 45, 49>>
    /\ user_bits_field[6] = 10

(***************************************************************************)
(* C2                                                                      *)
(***************************************************************************)
EvenParity(bits) ==
    /\ Len(bits) = BitsPerFrame
    /\ SumBits(bits) % 2 = 0
    /\ BitAt(bits, 27) = 1 <=> (SumBits(bits) - BitAt(bits, 27)) % 2 = 1

\* C2: every frame an encoder returns, called directly or by generate_ltc,
\* has exactly 80 bits with an even sum, and bit 27 is 1 exactly when the
\* other 79 bits sum to an odd number.
C2_EvenParity ==
    /\ EncoderReturned => EvenParity(ltc_bits)
    /\ \A k \in 1..Len(emitted) : ~emitted[k].raised => EvenParity(emitted[k].bits)

C2_Witness ==
    /\ EncoderReturned
    /\ op = "timecode_to_binary"
    /\ BitAt(ltc_bits, 27) = 1
    /\ user_bits_field[3] = 5

(***************************************************************************)
(* C3                                                                      *)
(***************************************************************************)
\* Bits 4-9 of the generic layout: user bits field 1, then the frame tens on
\* two bits (of a tens digit above 3, which two bits cannot hold, the low two).
GenericLayout4To9(bits, frames, field1) ==
    /\ NibbleAt(bits, 4) = field1
    /\ TwoAt(bits, 8) = (frames \div 10) % 4

\* Bits 4-9 of the 60 fps layout.
SixtyLayout4To9(bits, frames) ==
    /\ BitAt(bits, 4) = 1 <=> frames >= 30
    /\ BitAt(bits, 5) = 0 /\ BitAt(bits, 6) = 0 /\ BitAt(bits, 7) = 0
    /\ BitAt(bits, 8) = 1 <=> (frames \div 10) \in {1, 4}
    /\ BitAt(bits, 9) = 1 <=> (frames \div 10) \in {2, 5}

HasSyncWord(bits) ==
    SubSeq(bits, 65, 80) = <<0, 0, 1, 1, 1, 1, 1, 1, 1, 1, 1, 1, 1, 1, 0, 1>>

\* C4: bits 64-79 of every frame an encoder returns are
\* 0,0,1,1,1,1,1,1,1,1,1,1,1,1,0,1, parity correction or not.
C4_SyncWord ==
    /\ EncoderReturned => HasSyncWord(ltc_bits)
    /\ \A k \in 1..Len(emitted) : ~emitted[k].raised => HasSyncWord(emitted[k].bits)

C4_Witness ==
    /\ EncoderReturned
    /\ op = "timecode_to_binary_for_60fps"
    /\ BitAt(ltc_bits, 27) = 1
    /\ user_bits_field[8] = 10
    /\ tc[4] >= 30

(***************************************************************************)
(* C5                                                                      *)
(***************************************************************************)
\* The places p where the waveform changes level between samples p and p+1.
Transitions(w) == {p \in 1..(Len(w) - 1) : w[p] # w[p + 1]}

\* The last sample of the first half of each cell whose bit is 1.
MidpointsOfOnes(bits, half) ==
    {2 * half * (c - 1) + half : c \in {k \in 1..Len(bits) : bits[k] = 1}}

ModulatorReturned ==
    /\ op = "generate_ltc_waveform"
    /\ HalfSamplesPerBit(sample_rate, fps) >= 1

WellFormedWaveform ==
    /\ Len(waveform) = BitsPerFrame * 2 * HalfSamplesPerBit(sample_rate, fps)
    /\ \A p \in 1..Len(waveform) : waveform[p] \in {1, -1}
    /\ waveform[1] = 1

\* C5 as stated: the buffer has 80 * 2 * half samples, each +1 or -1, the
\* first +1, and its level transitions are exactly one at the end of each of
\* the 80 cells and one at the midpoint of each cell whose bit is 1.
C5_TransitionAtAll80Boundaries ==
    ModulatorReturned
    => /\ WellFormedWaveform
       /\ Transitions(waveform)
          = {2 * HalfSamplesPerBit(sample_rate, fps) * c : c \in 1..BitsPerFrame}
            \cup MidpointsOfOnes(ltc_bits, HalfSamplesPerBit(sample_rate, fps))

\* C5 (amended): the buffer has 80 * 2 * half samples, each +1 or -1, the
\* first +1, and its level transitions are exactly one at each of the 79
\* boundaries between two cells of the buffer and one at the midpoint of each
\* cell whose bit is 1; the buffer ends with the 80th cell, so no transition
\* after that cell is in it.
C5_BiphaseMark ==
    ModulatorReturned
    => /\ WellFormedWaveform
       /\ Transitions(waveform)
          = {2 * HalfSamplesPerBit(sample_rate, fps) * c : c \in 1..(BitsPerFrame - 1)}
            \cup MidpointsOfOnes(ltc_bits, HalfSamplesPerBit(sample_rate, fps))

C5_Witness ==
    /\ ModulatorReturned
    /\ sample_rate = 48000
    /\ fps = 25
    /\ BitAt(ltc_bits, 0) = 0
    /\ BitAt(ltc_bits, 11) = 1

(***************************************************************************)
(* C6                                                                      *)
(***************************************************************************)
\* C6: in generate_ltc, a frame carrying (23, 59, 59, fps - 1) is followed by
\* a frame carrying (0, 0, 0, 0).
C6_Wraparound ==
    op = "generate_ltc"
    => \A k \in 1..(Len(emitted) - 1) :
          emitted[k].tc = <<23, 59, 59, fps - 1>> => emitted[k + 1].tc = <<0, 0, 0, 0>>

C6_Witness ==
    /\ op = "generate_ltc"
    /\ fps = 30
    /\ Len(emitted) >= 3
    /\ emitted[2].tc = <<23, 59, 59, 29>>

(***************************************************************************)
(* C7                                                                      *)
(***************************************************************************)
\* C7: a direct call of either encoder raises, and returns no frame, exactly
\* when frames >= fps; otherwise it returns the 80 bits.
C7_FrameRange ==
    op \in {"timecode_to_binary", "timecode_to_binary_for_60fps"}
    => /\ raised <=> tc[4] >= fps
       /\ raised => ltc_bits = <<>>
       /\ ~raised => Len(ltc_bits) = BitsPerFrame

C7_Witness ==
    /\ op = "timecode_to_binary_for_60fps"
    /\ tc[4] = fps
    /\ raised

(***************************************************************************)
(* C8                                                                      *)
(***************************************************************************)
\* C8: a generic-profile generator built with user_bits_field1 = v, the other
\* user-bits fields 0, encodes frames whose bits 4-7 are v, least significant
\* bit first.
C8_Field1ReachesWire ==
    (op = "generate_ltc" /\ fps # 60 /\ \A j \in 2..8 : user_bits_field[j] = 0)
    => \A k \in 1..Len(emitted) :
          ~emitted[k].raised => NibbleAt(emitted[k].bits, 4) = ctor_user_bits_field1

(***************************************************************************)
(* C9                                                                      *)
(***************************************************************************)
\* C9: a generate_ltc call for at least one frame runs only on a generator
\* whose sample rate is at least 2 * fps * 80 (lower rates being rejected
\* when the generator is configured), and returns a buffer that is not empty.
C9_SampleRateTooLowRejected ==
    (op = "generate_ltc" /\ num_frames >= 1)
    => /\ sample_rate >= 2 * fps * BitsPerFrame
       /\ waveform # <<>>

(***************************************************************************)
(* C10                                                                     *)
(***************************************************************************)
\* The one-frame advance: increment the frame; on frame = fps reset it and
\* increment the seconds; likewise into minutes and hours; hours modulo 24.
Advance(t, f) ==
    IF t[4] + 1 # f THEN <<t[1], t[2], t[3], t[4] + 1>>
    ELSE IF t[3] + 1 # 60 THEN <<t[1], t[2], t[3] + 1, 0>>
    ELSE IF t[2] + 1 # 60 THEN <<t[1], t[2] + 1, 0, 0>>
    ELSE <<(t[1] + 1) % 24, 0, 0, 0>>

RECURSIVE AdvanceTimes(_, _, _)
AdvanceTimes(t, f, i) == IF i = 0 THEN t ELSE Advance(AdvanceTimes(t, f, i - 1), f)

\* C10: from a valid start timecode, iteration i of generate_ltc (i = 0, 1,
\* ... in this order, num_frames of them) encodes the start timecode advanced
\* by one frame i times.
C10_ClosedFormIsIteratedAdvance ==
    (op = "generate_ltc" /\ ValidTimecode(tc, fps))
    => /\ Len(emitted) = num_frames
       /\ \A k \in 1..Len(emitted) :
             /\ emitted[k].i = k - 1
             /\ emitted[k].tc = AdvanceTimes(tc, fps, k - 1)

C10_Witness ==
    /\ op = "generate_ltc"
    /\ fps = 25
    /\ tc = <<0, 59, 59, 24>>
    /\ Len(emitted) = 3

(***************************************************************************)
(* C11                                                                     *)
(***************************************************************************)
\* C11: in every generate_ltc call, whatever integers the start timecode is,
\* each timecode handed to the encoder has 0 <= frame < fps, seconds <= 59,
\* minutes <= 59 and hours <= 23, no encoder call raises, and the call runs
\* all its num_frames iterations and returns.
C11_NoMidStreamFailure ==
    op = "generate_ltc"
    => /\ ~raised
       /\ Len(emitted) = num_frames
       /\ \A k \in 1..Len(emitted) :
             /\ ~emitted[k].raised
             /\ emitted[k].tc[4] >= 0 /\ emitted[k].tc[4] < fps
             /\ emitted[k].tc[3] >= 0 /\ emitted[k].tc[3] <= 59
             /\ emitted[k].tc[2] >= 0 /\ emitted[k].tc[2] <= 59
             /\ emitted[k].tc[1] >= 0 /\ emitted[k].tc[1] <= 23

C11_Witness ==
    /\ op = "generate_ltc"
    /\ fps = 50
    /\ tc = <<24, 60, 0, 51>>
    /\ Len(emitted) = 3
    /\ emitted[3].tc = <<1, 0, 1, 3>>

(***************************************************************************)
(* C12                                                                     *)
(***************************************************************************)
\* The number of samples of one frame in the buffer generate_ltc returns.
SamplesPerFrame == BitsPerFrame * 2 * HalfSamplesPerBit(sample_rate, fps)

\* C12: in the buffer generate_ltc returns for two frames or more, with at
\* least one sample per half bit, every frame but the last ends at level -1
\* and the frame after it starts at level +1, so the level changes at every
\* frame join; every encoded frame has an even number of 1 bits.
C12_ContinuityAtFrameJoins ==
    (op = "generate_ltc" /\ num_frames >= 2 /\ HalfSamplesPerBit(sample_rate, fps) >= 1)
    => /\ Len(waveform) = num_frames * SamplesPerFrame
       /\ \A k \in 1..Len(emitted) : SumBits(emitted[k].bits) % 2 = 0
       /\ \A k \in 1..(num_frames - 1) :
             /\ waveform[k * SamplesPerFrame] = -1
             /\ waveform[k * SamplesPerFrame + 1] = 1

C12_Witness ==
    /\ op = "generate_ltc"
    /\ fps = 60
    /\ sample_rate = 9600
    /\ num_frames = 3
    /\ Len(waveform) = 480
    /\ \E k \in 1..Len(emitted) : BitAt(emitted[k].bits, 27) = 1

=============================================================================
